---- MODULE Spec2Model ----
(***************************************************************************)
(* Model of funding_bot.py: one scanner process per run, executing run()   *)
(* step by step against an environment that supplies the exchange's        *)
(* answers, the Telegram endpoint's answer, the wall clock and the         *)
(* cooldown file found on disk.                                            *)
(*                                                                         *)
(* Units: time in epoch seconds; funding rates in 1/10000 of a percent, so *)
(* the source's 0.0800 is 800.  Funding intervals returned by the exchange *)
(* are whole hours (multiples of 3600 seconds), for which the source's     *)
(* float division sec / 3600 is exact.                                     *)
(***************************************************************************)
EXTENDS Integers, Sequences, FiniteSets, TLC

VARIABLES
    now,                \* wall clock, what time.time() returns next at the earliest
    runNo,              \* number of processes started so far
    TELEGRAM_BOT_TOKEN, \* module global, read from the environment at import
    TELEGRAM_CHAT_ID,   \* module global, read from the environment at import
    file,               \* COOLDOWN_FILE on disk
    pc,                 \* position of run()
    report,             \* what the process told the operator when it ended
    fetched,            \* how the ticker request ended
    tickers,            \* run(): tickers, the result list of the answer
    top3,               \* run(): top3
    alert_candidates,   \* run(): alert_candidates
    i,                  \* index of the loop under way
    last_alerts,        \* run(): last_alerts (in memory)
    final_alerts,       \* run(): final_alerts
    msg,                \* run(): msg, as the sequence of its alert blocks
    fileAtStart,        \* history: the file when this process started
    fileAtInit,         \* history: the file before the first process
    loads,              \* history: reads of the cooldown file in this run
    resolveCalls,       \* history: per-product requests in this run, by symbol
    sendCalls,          \* history: calls of send_telegram in this run
    posts,              \* history: POSTs to the Telegram API in this run
    telegramNet,        \* history: what the Telegram endpoint would answer
    sendResult,         \* history: how send_telegram ended
    delivered,          \* history: symbols of messages Telegram accepted
    checks,             \* history: the can_send calls of this run, with their results
    resolutions         \* history: the per-product answers got for the alert candidates

vars == << now, runNo, TELEGRAM_BOT_TOKEN, TELEGRAM_CHAT_ID, file, pc, report,
           fetched, tickers, top3, alert_candidates, i, last_alerts,
           final_alerts, msg,
           fileAtStart, fileAtInit, loads, resolveCalls, sendCalls,
           posts, telegramNet, sendResult, delivered, checks, resolutions >>

----------------------------------------------------------------------------
(* Bounds of the model *)

\* The clock starts at StartTime, later than the longest interval the
\* exchange returns (as the epoch clock is), and runs up to MaxTime.  The
\* cooldown functions on their own take intervals up to MaxHours, which is
\* longer than the time since the epoch at StartTime.
MaxRuns == 2
StartTime == 7200
MaxTime == 10800
MaxHours == 3

Symbols == {"BTC", "ETH", "SOL", "DOGE"}
SymOrder == << "BTC", "ETH", "SOL", "DOGE" >>

\* what a ticker carries in "funding_rate": a number, or something float() rejects
RawRates == { <<"num", 500>>, <<"num", 0 - 1200>>, <<"bad", 0>> }

\* the same for the ranking and the message on their own
RankRates ==
    { <<"num", 0>>, <<"num", 500>>, <<"num", 800>>, <<"num", 0 - 800>>,
      <<"num", 900>>, <<"num", 0 - 1200>>, <<"bad", 0>> }

Delays == {0, 1800}
StoredSymbols == {"ETH", "SOL"}
StoredTimes == {3600}
EnvValues == {"None", "set"}

\* answers of the per-product endpoint
ProductResponses ==
    { [kind |-> "exception", sec |-> 0], [kind |-> "not_ok", sec |-> 0],
      [kind |-> "no_success", sec |-> 0], [kind |-> "no_field", sec |-> 0],
      [kind |-> "ok", sec |-> 0], [kind |-> "ok", sec |-> 3600],
      [kind |-> "ok", sec |-> 7200] }

\* ways the ticker request can end: session.get raises, the answer is not
\* 2xx, a 2xx body is not JSON, the JSON has no success flag, or all is well
TickerOutcomes ==
    {"ConnectionError", "Timeout", "not_ok", "not_json", "no_success", "ok"}

\* ways the Telegram POST can end
TelegramOutcomes == {"200", "4xx", "Timeout"}

----------------------------------------------------------------------------
(* Configuration *)

ALERT_THRESHOLD == 800

\* names bound in the module's global namespace when run() executes
ModuleGlobals ==
    { "requests", "json", "time", "os", "datetime", "BASE_URL",
      "TELEGRAM_BOT_TOKEN", "TELEGRAM_CHAT_ID", "ALERT_THRESHOLD",
      "COOLDOWN_FILE", "session", "format_ts", "get_funding_interval",
      "load_last_alerts", "save_last_alerts", "can_send", "send_telegram",
      "run" }

Falsy(v) == v = "None" \/ v = ""

----------------------------------------------------------------------------
(* Utilities *)

Abs(x) == IF x < 0 THEN 0 - x ELSE x

EmptyMap == [k \in {} |-> 0]

NoneInterval == [none |-> TRUE, hours |-> 0]

\* get_funding_interval: the answer of the per-product endpoint to hours, or None
get_funding_interval(resp) ==
    IF resp.kind = "ok" /\ resp.sec # 0
    THEN [none |-> FALSE, hours |-> resp.sec \div 3600]
    ELSE NoneInterval

\* the test of the interval left out
TruthyAlways(interval) == TRUE

\* Python truth value of what get_funding_interval returned
Truthy(interval) == ~interval.none /\ interval.hours # 0

----------------------------------------------------------------------------
(* Cooldown logic *)

\* json.dump of a dict: the members of the JSON object
json_dump(data) == { << k, data[k] >> : k \in DOMAIN data }

\* json.load: the dict of the JSON object's members
json_load(text) ==
    [ k \in { p[1] : p \in text } |-> (CHOOSE p \in text : p[1] = k)[2] ]

\* The file: whether it exists, the members of the JSON object in it, and
\* whether the text is a complete JSON document (an empty or cut-off text is not).
NoFile == [exists |-> FALSE, text |-> {}, complete |-> FALSE]

\* an existing file whose text is empty
TruncatedFile == [exists |-> TRUE, text |-> {}, complete |-> FALSE]

\* load_last_alerts: the mapping returned, or the exception json.load raises
load_last_alerts(f) ==
    IF ~f.exists THEN [kind |-> "return", value |-> EmptyMap]
    ELSE IF f.complete THEN [kind |-> "return", value |-> json_load(f.text)]
    ELSE [kind |-> "raise", value |-> EmptyMap]

\* save_last_alerts run to its end: open for writing, json.dump, close
save_last_alerts(data) ==
    [exists |-> TRUE, text |-> json_dump(data), complete |-> TRUE]

\* last_alerts.get(symbol, 0)
DictGet(d, k, default) == IF k \in DOMAIN d THEN d[k] ELSE default

\* can_send with the hours compared to seconds (the factor 3600 forgotten)
can_send_hours(symbol, interval_hours, alerts, t) ==
    (t - DictGet(alerts, symbol, 0)) >= interval_hours

\* can_send with a strict comparison
can_send_strict(symbol, interval_hours, alerts, t) ==
    (t - DictGet(alerts, symbol, 0)) > (interval_hours * 3600)

\* can_send with the current time as the default last-alert time
can_send_default_now(symbol, interval_hours, alerts, t) ==
    (t - DictGet(alerts, symbol, t)) >= (interval_hours * 3600)

can_send(symbol, interval_hours, alerts, t) ==
    (t - DictGet(alerts, symbol, 0)) >= (interval_hours * 3600)

\* the record that forgets every other symbol
DictSetOnly(d, k, v) == [ x \in {k} |-> v ]

\* last_alerts[symbol] = time.time()
DictSet(d, k, v) == [ x \in DOMAIN d \cup {k} |-> IF x = k THEN v ELSE d[x] ]

----------------------------------------------------------------------------
(* Telegram *)

\* send_telegram: how the call ends and how many POSTs it made.  Its first
\* statement reads the global TELEGRAM_TOKEN, before the try block; a name
\* the module does not bind raises NameError there.
send_telegram(token, chat, net) ==
    IF "TELEGRAM_TOKEN" \notin ModuleGlobals
    THEN [kind |-> "raise", value |-> "NameError", posts |-> 0]
    ELSE IF Falsy(token) \/ Falsy(chat)
    THEN [kind |-> "return", value |-> "False", posts |-> 0]
    ELSE IF net = "200"
    THEN [kind |-> "return", value |-> "True", posts |-> 1]
    ELSE [kind |-> "return", value |-> "False", posts |-> 1]

----------------------------------------------------------------------------
(* Core logic: ranking *)

\* the tickers of a feed, in the order the exchange lists them
RECURSIVE FeedSeq(_, _)
FeedSeq(f, n) ==
    IF n = 0 THEN << >>
    ELSE Append(FeedSeq(f, n - 1),
                [symbol |-> SymOrder[n], raw |-> f[SymOrder[n]]])

Feeds == { FeedSeq(f, Len(SymOrder)) : f \in [Symbols -> RawRates] }

\* the loop over tickers: entries whose funding_rate float() rejects are skipped
RECURSIVE Contracts(_)
Contracts(listed) ==
    IF listed = << >> THEN << >>
    ELSE LET t == listed[Len(listed)]
             rest == Contracts(SubSeq(listed, 1, Len(listed) - 1))
         IN  IF t.raw[1] = "num"
             THEN Append(rest, [symbol |-> t.symbol, funding_rate |-> t.raw[2]])
             ELSE rest

\* the insertion by the signed funding_rate (the key without abs)
RECURSIVE InsertDescSigned(_, _)
InsertDescSigned(c, sorted) ==
    IF sorted = << >> THEN << c >>
    ELSE IF sorted[1].funding_rate >= c.funding_rate
         THEN << sorted[1] >> \o InsertDescSigned(c, Tail(sorted))
         ELSE << c >> \o sorted

\* place c behind every element whose |funding_rate| is at least c's
RECURSIVE InsertDesc(_, _)
InsertDesc(c, sorted) ==
    IF sorted = << >> THEN << c >>
    ELSE IF Abs(sorted[1].funding_rate) >= Abs(c.funding_rate)
         THEN << sorted[1] >> \o InsertDesc(c, Tail(sorted))
         ELSE << c >> \o sorted

\* contracts.sort(key=abs(funding_rate), reverse=True): stable, descending
RECURSIVE SortDesc(_)
SortDesc(contracts) ==
    IF contracts = << >> THEN << >>
    ELSE InsertDesc(contracts[Len(contracts)],
                    SortDesc(SubSeq(contracts, 1, Len(contracts) - 1)))

\* contracts[:3]
Top3(contracts) ==
    SubSeq(contracts, 1, IF Len(contracts) < 3 THEN Len(contracts) ELSE 3)

\* the threshold test with a strict comparison
CrossesThresholdStrict(c) == Abs(c.funding_rate) > ALERT_THRESHOLD

CrossesThreshold(c) == Abs(c.funding_rate) >= ALERT_THRESHOLD

\* [c for c in top3 if abs(c["funding_rate"]) >= ALERT_THRESHOLD]
RECURSIVE AlertCandidates(_)
AlertCandidates(display) ==
    IF display = << >> THEN << >>
    ELSE IF CrossesThreshold(display[1])
         THEN << display[1] >> \o AlertCandidates(Tail(display))
         ELSE AlertCandidates(Tail(display))

\* the direction with a zero rate counted as negative
DirectionZeroShorts(c) ==
    IF c.funding_rate <= 0 THEN "Shorts pay Longs" ELSE "Longs pay Shorts"

\* one alert block of the message
Direction(c) ==
    IF c.funding_rate < 0 THEN "Shorts pay Longs" ELSE "Longs pay Shorts"

Block(a) ==
    [symbol |-> a.c.symbol, funding_rate |-> a.c.funding_rate,
     hours |-> a.interval.hours, direction |-> Direction(a.c)]

BuildMessage(alerts) == [ k \in 1..Len(alerts) |-> Block(alerts[k]) ]

\* the cooldown saved before the message is sent, whatever becomes of it
PersistBeforeSend(res, f, alerts) == save_last_alerts(alerts)

\* if send_telegram(msg): save_last_alerts(last_alerts)
PersistAfterSend(res, f, alerts) ==
    IF res.kind = "return" /\ res.value = "True"
    THEN save_last_alerts(alerts)
    ELSE f

----------------------------------------------------------------------------
(* The environment at start *)

StoredMaps ==
    UNION { [S -> StoredTimes] : S \in SUBSET StoredSymbols }

\* the cooldown file as a process may find it: none, or the JSON object left
\* by whatever ran before
InitFiles ==
    {NoFile, TruncatedFile} \cup { save_last_alerts(m) : m \in StoredMaps }

\* the in-memory state of a process that has just been started
Fresh ==
    /\ pc = "Fetching"
    /\ report = "none"
    /\ fetched = "none"
    /\ tickers = << >>
    /\ top3 = << >>
    /\ alert_candidates = << >>
    /\ i = 0
    /\ last_alerts = EmptyMap
    /\ final_alerts = << >>
    /\ msg = << >>
    /\ loads = 0
    /\ resolveCalls = [s \in Symbols |-> 0]
    /\ sendCalls = 0
    /\ posts = 0
    /\ telegramNet = "none"
    /\ sendResult = "none"
    /\ checks = << >>
    /\ resolutions = << >>

Init ==
    /\ now = StartTime
    /\ runNo = 1
    /\ TELEGRAM_BOT_TOKEN \in EnvValues
    /\ TELEGRAM_CHAT_ID \in EnvValues
    /\ file \in InitFiles
    /\ fileAtStart = file
    /\ fileAtInit = file
    /\ delivered = {}
    /\ Fresh

----------------------------------------------------------------------------
(* run(), step by step *)

perRun == << tickers, top3, alert_candidates, i, last_alerts, final_alerts, msg >>
env == << runNo, TELEGRAM_BOT_TOKEN, TELEGRAM_CHAT_ID, fileAtInit >>
notify == << sendCalls, posts, telegramNet, sendResult, delivered >>

\* session.get(tickers), the success test, the parse loop, the sort and the cut
run_fetch ==
    /\ pc = "Fetching"
    /\ \E out \in TickerOutcomes :
          /\ fetched' = out
          /\ \/ /\ out \in {"ConnectionError", "Timeout", "not_json"}
                /\ pc' = "Fault"
                /\ report' = IF out = "not_json" THEN "JSONDecodeError" ELSE out
                /\ UNCHANGED << tickers, top3, i >>
             \/ /\ out \in {"not_ok", "no_success"}
                /\ pc' = "Done"
                /\ report' = "Failed to fetch funding data"
                /\ UNCHANGED << tickers, top3, i >>
             \/ /\ out = "ok"
                /\ tickers' \in Feeds
                /\ top3' = Top3(SortDesc(Contracts(tickers')))
                /\ pc' = "Resolving"
                /\ i' = 1
                /\ UNCHANGED report
    /\ UNCHANGED << now, env, file, alert_candidates, last_alerts, final_alerts,
                    msg, fileAtStart, loads, resolveCalls, notify, checks,
                    resolutions >>

\* one round of the loop that prints the top 3
run_display ==
    /\ pc = "Resolving"
    /\ i <= Len(top3)
    /\ \E resp \in ProductResponses :
          \* the interval only goes into the printed line, which is not kept
          LET interval == get_funding_interval(resp)
          IN  resolveCalls' = [resolveCalls EXCEPT ![top3[i].symbol] = @ + 1]
    /\ i' = i + 1
    /\ UNCHANGED << now, env, file, pc, report, fetched, tickers, top3,
                    alert_candidates, last_alerts, final_alerts, msg,
                    fileAtStart, loads, notify, checks, resolutions >>

\* the alert filter without the return when nothing crossed the threshold
run_filter_no_return ==
    /\ pc = "Resolving"
    /\ i > Len(top3)
    /\ alert_candidates' = AlertCandidates(top3)
    /\ pc' = "Loading"
    /\ UNCHANGED << now, env, file, report, fetched, tickers, top3, i,
                    last_alerts, final_alerts, msg, fileAtStart, loads,
                    resolveCalls, notify, checks, resolutions >>

\* the alert filter, and the return when nothing crossed the threshold
run_filter ==
    /\ pc = "Resolving"
    /\ i > Len(top3)
    /\ alert_candidates' = AlertCandidates(top3)
    /\ IF alert_candidates' = << >>
       THEN pc' = "Done" /\ report' = "No funding rate crossed"
       ELSE pc' = "Loading" /\ UNCHANGED report
    /\ UNCHANGED << now, env, file, fetched, tickers, top3, i, last_alerts,
                    final_alerts, msg, fileAtStart, loads, resolveCalls,
                    notify, checks, resolutions >>

\* last_alerts = load_last_alerts(); final_alerts = []
run_load ==
    /\ pc = "Loading"
    /\ loads' = loads + 1
    /\ LET res == load_last_alerts(file)
       IN  IF res.kind = "raise"
           THEN /\ pc' = "Fault"
                /\ report' = "JSONDecodeError"
                /\ UNCHANGED << last_alerts, final_alerts, i >>
           ELSE /\ last_alerts' = res.value
                /\ final_alerts' = << >>
                /\ i' = 1
                /\ pc' = "Cooldown"
                /\ UNCHANGED report
    /\ UNCHANGED << now, env, file, fetched, tickers, top3, alert_candidates,
                    msg, fileAtStart, resolveCalls, notify, checks,
                    resolutions >>

\* one round of the loop over alert_candidates
run_cooldown ==
    /\ pc = "Cooldown"
    /\ i <= Len(alert_candidates)
    /\ \E resp \in ProductResponses, d1 \in Delays, d2 \in Delays :
          LET c == alert_candidates[i]
              interval == get_funding_interval(resp)
              t1 == now + d1
              t2 == t1 + d2
              ok == can_send(c.symbol, interval.hours, last_alerts, t1)
          IN  /\ resolveCalls' = [resolveCalls EXCEPT ![c.symbol] = @ + 1]
              /\ resolutions' = Append(resolutions,
                    [symbol |-> c.symbol,
                     usable |-> resp.kind = "ok" /\ resp.sec > 0,
                     sec |-> IF resp.kind = "ok" THEN resp.sec ELSE 0])
              /\ IF ~Truthy(interval)
                 THEN /\ d1 = 0 /\ d2 = 0
                      /\ UNCHANGED << now, last_alerts, final_alerts, checks >>
                 ELSE /\ t2 <= MaxTime
                      /\ checks' = Append(checks,
                            [symbol |-> c.symbol,
                             interval_hours |-> interval.hours,
                             alerts |-> last_alerts, now |-> t1,
                             result |-> ok])
                      /\ IF ok
                         THEN /\ final_alerts' = Append(final_alerts,
                                    [c |-> c, interval |-> interval])
                              /\ last_alerts' = DictSet(last_alerts, c.symbol, t2)
                              /\ now' = t2
                         ELSE /\ d2 = 0
                              /\ now' = t1
                              /\ UNCHANGED << last_alerts, final_alerts >>
    /\ i' = i + 1
    /\ UNCHANGED << env, file, pc, report, fetched, tickers, top3,
                    alert_candidates, msg, fileAtStart, loads, notify >>

\* the end of the loop without the return when every candidate was dropped
run_final_check_no_return ==
    /\ pc = "Cooldown"
    /\ i > Len(alert_candidates)
    /\ pc' = "Sending"
    /\ UNCHANGED << now, env, file, report, fetched, perRun, fileAtStart,
                    loads, resolveCalls, notify, checks, resolutions >>

\* the return when every candidate was dropped
run_final_check ==
    /\ pc = "Cooldown"
    /\ i > Len(alert_candidates)
    /\ IF final_alerts = << >>
       THEN pc' = "Done" /\ report' = "Alert-worthy contracts are in cooldown period"
       ELSE pc' = "Sending" /\ UNCHANGED report
    /\ UNCHANGED << now, env, file, fetched, perRun, fileAtStart, loads,
                    resolveCalls, notify, checks, resolutions >>

\* build the message, send_telegram(msg), and save_last_alerts on success
run_send ==
    /\ pc = "Sending"
    /\ msg' = BuildMessage(final_alerts)
    /\ \E net \in TelegramOutcomes :
          LET res == send_telegram(TELEGRAM_BOT_TOKEN, TELEGRAM_CHAT_ID, net)
              accepted == res.posts = 1 /\ net = "200"
          IN  /\ telegramNet' = net
              /\ sendCalls' = sendCalls + 1
              /\ posts' = posts + res.posts
              /\ sendResult' = res.value
              /\ delivered' = IF accepted
                              THEN delivered \cup
                                   { final_alerts[k].c.symbol :
                                       k \in 1..Len(final_alerts) }
                              ELSE delivered
              /\ file' = PersistAfterSend(res, file, last_alerts)
              /\ pc' = IF res.kind = "raise" THEN "Fault" ELSE "Done"
              /\ report' = IF res.kind = "raise" THEN res.value
                           ELSE IF res.value = "True" THEN "Telegram alert sent"
                           ELSE IF res.posts = 0 THEN "Telegram credentials missing"
                           ELSE "Telegram skipped (network issue)"
    /\ UNCHANGED << now, env, fetched, tickers, top3, alert_candidates, i,
                    last_alerts, final_alerts, fileAtStart, loads,
                    resolveCalls, checks, resolutions >>

\* the scheduler starts the next process, some time later
main_start ==
    /\ pc \in {"Done", "Fault"}
    /\ runNo < MaxRuns
    /\ runNo' = runNo + 1
    /\ \E d \in Delays \cup {3600} : now + d <= MaxTime /\ now' = now + d
    /\ TELEGRAM_BOT_TOKEN' \in EnvValues
    /\ TELEGRAM_CHAT_ID' \in EnvValues
    /\ fileAtStart' = file
    /\ pc' = "Fetching"
    /\ report' = "none"
    /\ fetched' = "none"
    /\ tickers' = << >>
    /\ top3' = << >>
    /\ alert_candidates' = << >>
    /\ i' = 0
    /\ last_alerts' = EmptyMap
    /\ final_alerts' = << >>
    /\ msg' = << >>
    /\ loads' = 0
    /\ resolveCalls' = [s \in Symbols |-> 0]
    /\ sendCalls' = 0
    /\ posts' = 0
    /\ telegramNet' = "none"
    /\ sendResult' = "none"
    /\ checks' = << >>
    /\ resolutions' = << >>
    /\ UNCHANGED << file, fileAtInit, delivered >>

Next ==
    \/ run_fetch
    \/ run_display
    \/ run_filter
    \/ run_load
    \/ run_cooldown
    \/ run_final_check
    \/ run_send
    \/ main_start

Spec == Init /\ [][Next]_vars

----------------------------------------------------------------------------
(* The cooldown functions on their own: can_send and the record of an      *)
(* alert, called with any mapping, any interval and at any time.           *)

InitCanSend ==
    /\ now = StartTime
    /\ runNo = 0
    /\ TELEGRAM_BOT_TOKEN = "None"
    /\ TELEGRAM_CHAT_ID = "None"
    /\ file = NoFile
    /\ fileAtStart = NoFile
    /\ fileAtInit = NoFile
    /\ delivered = {}
    /\ pc = "can_send"
    /\ report = "none"
    /\ fetched = "none"
    /\ tickers = << >>
    /\ top3 = << >>
    /\ alert_candidates = << >>
    /\ i = 0
    /\ last_alerts \in StoredMaps
    /\ final_alerts = << >>
    /\ msg = << >>
    /\ loads = 0
    /\ resolveCalls = [s \in Symbols |-> 0]
    /\ sendCalls = 0
    /\ posts = 0
    /\ telegramNet = "none"
    /\ sendResult = "none"
    /\ checks = << >>
    /\ resolutions = << >>

others == << env, file, pc, report, fetched, tickers, top3, resolutions, alert_candidates, i,
             final_alerts, msg, fileAtStart, loads, resolveCalls, notify >>

\* can_send(symbol, interval_hours, last_alerts), called at the current time
call_can_send ==
    /\ pc = "can_send"
    /\ \E symbol \in Symbols, interval_hours \in 1..MaxHours :
          checks' = << [symbol |-> symbol, interval_hours |-> interval_hours,
                        alerts |-> last_alerts, now |-> now,
                        result |-> can_send(symbol, interval_hours,
                                            last_alerts, now)] >>
    /\ UNCHANGED << now, last_alerts, others >>

\* last_alerts[symbol] = time.time()
call_record ==
    /\ pc = "can_send"
    /\ \E symbol \in StoredSymbols :
          last_alerts' = DictSet(last_alerts, symbol, now)
    /\ UNCHANGED << now, checks, others >>

\* time passes
clock_tick ==
    /\ pc = "can_send"
    /\ \E d \in Delays \ {0} : now + d <= MaxTime /\ now' = now + d
    /\ UNCHANGED << last_alerts, checks, others >>

NextCanSend == call_can_send \/ call_record \/ clock_tick

SpecCanSend == InitCanSend /\ [][NextCanSend]_vars

----------------------------------------------------------------------------
(* The ranking, the alert filter and the message loop on their own, applied *)
(* to any list of tickers.                                                  *)

RankFeeds == { FeedSeq(f, Len(SymOrder)) : f \in [Symbols -> RankRates] }

InitRank ==
    /\ now = StartTime
    /\ runNo = 0
    /\ TELEGRAM_BOT_TOKEN = "None"
    /\ TELEGRAM_CHAT_ID = "None"
    /\ file = NoFile
    /\ fileAtStart = NoFile
    /\ fileAtInit = NoFile
    /\ delivered = {}
    /\ pc = "rank"
    /\ report = "none"
    /\ fetched = "ok"
    /\ tickers \in RankFeeds
    /\ top3 = << >>
    /\ alert_candidates = << >>
    /\ i = 0
    /\ last_alerts = EmptyMap
    /\ final_alerts = << >>
    /\ msg = << >>
    /\ loads = 0
    /\ resolveCalls = [s \in Symbols |-> 0]
    /\ sendCalls = 0
    /\ posts = 0
    /\ telegramNet = "none"
    /\ sendResult = "none"
    /\ checks = << >>
    /\ resolutions = << >>

rankFrame == << now, env, file, report, fetched, tickers, i, last_alerts,
               fileAtStart, loads, resolveCalls, notify, checks, resolutions >>

\* the parse loop, the sort, the cut and the alert filter
rank_sort ==
    /\ pc = "rank"
    /\ top3' = Top3(SortDesc(Contracts(tickers)))
    /\ alert_candidates' = AlertCandidates(top3')
    /\ pc' = "ranked"
    /\ UNCHANGED << final_alerts, msg, rankFrame >>

\* the message loop, over the ranked contracts taken as the alerts
rank_message ==
    /\ pc = "ranked"
    /\ \E h \in 1..2 :
          final_alerts' =
              [ k \in 1..Len(top3) |->
                  [c |-> top3[k], interval |-> [none |-> FALSE, hours |-> h]] ]
    /\ msg' = BuildMessage(final_alerts')
    /\ pc' = "message"
    /\ UNCHANGED << top3, alert_candidates, rankFrame >>

NextRank == rank_sort \/ rank_message

SpecRank == InitRank /\ [][NextRank]_vars

----------------------------------------------------------------------------
(* save_last_alerts step by step: open(COOLDOWN_FILE, "w") empties the      *)
(* file, json.dump writes the members, leaving the with block closes the   *)
(* file; the process can die between any two of these steps.               *)

SaveMaps ==
    UNION { [S -> {3600, 7200}] : S \in SUBSET StoredSymbols }

InitSave ==
    /\ now = StartTime
    /\ runNo = 0
    /\ TELEGRAM_BOT_TOKEN = "None"
    /\ TELEGRAM_CHAT_ID = "None"
    /\ file \in InitFiles \ {TruncatedFile}
    /\ fileAtStart = file
    /\ fileAtInit = file
    /\ delivered = {}
    /\ pc = "save"
    /\ report = "none"
    /\ fetched = "none"
    /\ tickers = << >>
    /\ top3 = << >>
    /\ alert_candidates = << >>
    /\ i = 0
    /\ last_alerts \in SaveMaps
    /\ final_alerts = << >>
    /\ msg = << >>
    /\ loads = 0
    /\ resolveCalls = [s \in Symbols |-> 0]
    /\ sendCalls = 0
    /\ posts = 0
    /\ telegramNet = "none"
    /\ sendResult = "none"
    /\ checks = << >>
    /\ resolutions = << >>

saveFrame == << now, env, report, fetched, perRun, fileAtStart, loads,
               resolveCalls, notify, checks, resolutions >>

\* open(COOLDOWN_FILE, "w"): the file is created or cut to length 0
save_open ==
    /\ pc = "save"
    /\ file' = TruncatedFile
    /\ pc' = "dump"
    /\ UNCHANGED saveFrame

\* json.dump(data, f): one more member of the object reaches the file
save_dump ==
    /\ pc = "dump"
    /\ \E m \in json_dump(last_alerts) \ file.text :
          file' = [file EXCEPT !.text = @ \cup {m}]
    /\ UNCHANGED << pc, saveFrame >>

\* the end of the with block: the object is closed and the file with it
save_close ==
    /\ pc = "dump"
    /\ file.text = json_dump(last_alerts)
    /\ file' = save_last_alerts(last_alerts)
    /\ pc' = "saved"
    /\ UNCHANGED saveFrame

\* the process dies (killed, power lost, disk full) before the file is closed
save_crash ==
    /\ pc \in {"save", "dump"}
    /\ pc' = "crashed"
    /\ UNCHANGED << file, saveFrame >>

NextSave == save_open \/ save_dump \/ save_close \/ save_crash

SpecSave == InitSave /\ [][NextSave]_vars

----------------------------------------------------------------------------
(* Properties *)

Ended == pc \in {"Done", "Fault"}

\* what the cooldown file holds: its symbols and their timestamps
DiskSymbols(f) == { p[1] : p \in f.text }
DiskTime(f, s) == (CHOOSE p \in f.text : p[1] = s)[2]

\* the symbols of the alerts that went into this run's message
Alerted == { final_alerts[k].c.symbol : k \in 1..Len(final_alerts) }

CredentialsSet == ~Falsy(TELEGRAM_BOT_TOKEN) /\ ~Falsy(TELEGRAM_CHAT_ID)

\* in memory the cooldown has advanced past what this run found on disk
RecordedInMemory ==
    \E s \in Alerted :
        s \notin DiskSymbols(fileAtStart) \/ last_alerts[s] # DiskTime(fileAtStart, s)

\* C1: a step changes the cooldown file only in a run whose notifier has
\* returned success, and a run that called the notifier without getting
\* success ends with the file as it was when the run started.
C1_WriteOnlyAfterSuccess ==
    [][ /\ (file' # file => sendResult' = "True" /\ runNo' = runNo)
        /\ (Ended' /\ sendCalls' = 1 /\ sendResult' # "True"
               => file' = fileAtStart') ]_vars

C1_Witness ==
    /\ Ended
    /\ sendCalls = 1
    /\ sendResult # "True"
    /\ RecordedInMemory
    /\ file = fileAtStart

C3_NotifierNeverRaises ==
    sendCalls = 1 => sendResult \in {"True", "False"} /\ pc = "Done"

\* C4: with the bot token or the chat id missing, send_telegram returns
\* False without a POST and the cooldown file stays as the run found it.
C4_MissingCredentials ==
    (sendCalls = 1 /\ ~CredentialsSet)
        => sendResult = "False" /\ posts = 0 /\ file = fileAtStart

\* C5: a ticker request that ends in a network error, a timeout, a non-2xx
\* answer or an answer without the success flag takes the run to Done with
\* the failure reported, no notifier call, and the cooldown file neither
\* read nor written.
C5_FetchFailureEndsRun ==
    fetched \in {"ConnectionError", "Timeout", "not_ok", "no_success"}
        => /\ pc = "Done"
           /\ report = "Failed to fetch funding data"
           /\ sendCalls = 0
           /\ loads = 0
           /\ file = fileAtStart

\* C6: a symbol whose last-alert time is on disk goes into a run's message
\* only after an eligibility check made at least interval_hours * 3600
\* seconds after that persisted time, interval_hours being the interval
\* resolved in this run (delivered or not, so also for delivered alerts).
C6_RateLimited ==
    \A k \in 1..Len(final_alerts) :
        LET s == final_alerts[k].c.symbol
            h == final_alerts[k].interval.hours
        IN  s \in DiskSymbols(fileAtStart)
                => \E j \in 1..Len(checks) :
                      /\ checks[j].symbol = s
                      /\ checks[j].result
                      /\ checks[j].interval_hours = h
                      /\ checks[j].now - DiskTime(fileAtStart, s) >= h * 3600

C6_Witness ==
    /\ runNo >= 2
    /\ pc = "Sending"
    /\ Alerted \cap DiskSymbols(fileAtStart) # {}

\* the last-alert time of the spec: the entry of the mapping, 0 without one
LastAlertTime(alerts, s) == IF s \in DOMAIN alerts THEN alerts[s] ELSE 0

\* C7: can_send is true exactly when now - last_alert_time(symbol) is at
\* least interval_hours * 3600; so for a recorded symbol it is false at the
\* time of the record and true only from last + interval_hours * 3600 on.
C7_CanSendIff ==
    \A k \in 1..Len(checks) :
        LET c == checks[k]
            last == LastAlertTime(c.alerts, c.symbol)
        IN  /\ c.result <=> (c.now - last >= c.interval_hours * 3600)
            /\ (c.symbol \in DOMAIN c.alerts /\ c.now = last) => ~c.result
            /\ (c.symbol \in DOMAIN c.alerts /\ c.result)
                   => c.now >= last + c.interval_hours * 3600

\* a symbol recorded by call_record is eligible again once its interval is over
C7_Witness ==
    /\ pc = "can_send"
    /\ \E k \in 1..Len(checks) :
          /\ checks[k].symbol \in DOMAIN checks[k].alerts
          /\ checks[k].alerts[checks[k].symbol] >= StartTime
          /\ checks[k].result

\* C8 as claimed: can_send is true for a symbol without an entry, whatever
\* the positive interval and the time.
C8_NeverAlertedAlwaysEligible ==
    \A k \in 1..Len(checks) :
        (checks[k].symbol \notin DOMAIN checks[k].alerts
            /\ checks[k].interval_hours > 0)
        => checks[k].result

\* C8 as amended: can_send is true for a symbol without an entry whenever
\* the positive interval is no longer than the time since the epoch,
\* interval_hours * 3600 <= now.
C8_NeverAlertedEligible ==
    \A k \in 1..Len(checks) :
        (checks[k].symbol \notin DOMAIN checks[k].alerts
            /\ checks[k].interval_hours > 0
            /\ checks[k].interval_hours * 3600 <= checks[k].now)
        => checks[k].result

C8_Witness ==
    /\ pc = "can_send"
    /\ \E k \in 1..Len(checks) :
          /\ checks[k].symbol \notin DOMAIN checks[k].alerts
          /\ checks[k].interval_hours > 0
          /\ checks[k].result

C10_PresentOnlyIfDelivered ==
    DiskSymbols(fileAtInit) = {}
        => \A s \in DiskSymbols(file) : s \in delivered

\* two runs on, an alert recorded in memory but never delivered is not on disk
C10_Witness ==
    /\ DiskSymbols(fileAtInit) = {}
    /\ runNo >= 2
    /\ Ended
    /\ sendCalls = 1
    /\ Alerted # {}
    /\ Alerted \cap delivered = {}
    /\ Alerted \cap DiskSymbols(file) = {}

\* the symbols of the blocks of the message
MsgSymbols == { msg[k].symbol : k \in 1..Len(msg) }

\* the display-set contracts that cross the threshold
Crossing ==
    { top3[k].symbol : k \in { n \in 1..Len(top3) :
                                 Abs(top3[n].funding_rate) >= ALERT_THRESHOLD } }

\* the last-alert time this run loaded for s
LoadedTime(s) ==
    IF s \in DiskSymbols(fileAtStart) THEN DiskTime(fileAtStart, s) ELSE 0

\* s got a usable interval and its eligibility check came no sooner than
\* that interval after the loaded last-alert time
Eligible(s) ==
    \E j \in 1..Len(resolutions), k \in 1..Len(checks) :
        /\ resolutions[j].symbol = s
        /\ resolutions[j].usable
        /\ checks[k].symbol = s
        /\ checks[k].now - LoadedTime(s) >= resolutions[j].sec

\* the entry of s in a file text, and in the mapping in memory
FileEntry(f, s) == { p \in f.text : p[1] = s }
MemoryEntry(s) ==
    IF s \in DOMAIN last_alerts THEN { << s, last_alerts[s] >> } ELSE {}

\* C11: in a run that called the notifier, the message holds exactly the
\* display-set contracts that cross the threshold, got a usable interval
\* and are out of cooldown; for every other symbol the entry in memory and
\* the entry on disk are the ones the run loaded.
C11_MessageAndFrame ==
    sendCalls = 1
        => /\ MsgSymbols = { s \in Symbols : s \in Crossing /\ Eligible(s) }
           /\ \A s \in Symbols \ MsgSymbols :
                 /\ MemoryEntry(s) = FileEntry(fileAtStart, s)
                 /\ FileEntry(file, s) = FileEntry(fileAtStart, s)

\* one contract alerted, one held back by its cooldown, one stored entry kept
C11_Witness ==
    /\ sendCalls = 1
    /\ MsgSymbols # {}
    /\ \E k \in 1..Len(checks) : ~checks[k].result
    /\ \E s \in DiskSymbols(fileAtStart) \ MsgSymbols :
          MemoryEntry(s) = FileEntry(fileAtStart, s)

\* C12: a run calls the notifier at most once and makes at most one POST;
\* the call comes only with at least one surviving alert, and its message
\* has one block for each of them.
C12_OneDelivery ==
    /\ sendCalls <= 1
    /\ posts <= sendCalls
    /\ sendCalls = 1
          => /\ final_alerts # << >>
             /\ Len(msg) = Len(final_alerts)
             /\ \A k \in 1..Len(msg) : msg[k].symbol = final_alerts[k].c.symbol

\* two alerts in one message, whose delivery failed and was not tried again
C12_Witness ==
    /\ Ended
    /\ sendCalls = 1
    /\ Len(msg) >= 2
    /\ sendResult # "True"

\* the loop over the candidates is over
LoopDone == pc # "Cooldown" /\ Len(resolutions) = Cardinality(Crossing)

\* C13: once past the filter, a run whose display set has no contract at
\* the threshold is Done without having read or written the cooldown
\* file; a run whose candidates all lack an interval or are in cooldown is
\* Done without a notifier call and with the file as it found it.
C13_NoAlertNoTouch ==
    /\ (fetched = "ok" /\ pc \notin {"Fetching", "Resolving"} /\ Crossing = {})
          => /\ pc = "Done"
             /\ report = "No funding rate crossed"
             /\ loads = 0
             /\ sendCalls = 0
             /\ last_alerts = EmptyMap
             /\ file = fileAtStart
    /\ (Crossing # {} /\ LoopDone /\ \A s \in Crossing : ~Eligible(s))
          => /\ pc = "Done"
             /\ sendCalls = 0
             /\ file = fileAtStart

\* two candidates, one without an interval and one in cooldown
C13_Witness ==
    /\ pc = "Done"
    /\ LoopDone
    /\ sendCalls = 0
    /\ \E j \in 1..Len(resolutions) : ~resolutions[j].usable
    /\ \E k \in 1..Len(checks) : ~checks[k].result

\* C14: a candidate whose per-product request failed, was refused, or
\* carried no interval or a zero one is in no alert and no message, and
\* keeps the entry the run loaded; no such answer ends the run in a fault.
C14_UnknownIntervalExcluded ==
    /\ \A j \in 1..Len(resolutions) :
          ~resolutions[j].usable
              => LET s == resolutions[j].symbol
                 IN  /\ s \notin Alerted
                     /\ s \notin MsgSymbols
                     /\ MemoryEntry(s) = FileEntry(fileAtStart, s)
                     /\ FileEntry(file, s) = FileEntry(fileAtStart, s)
    /\ (pc = "Fault" /\ resolutions # << >>) => sendCalls = 1

\* a threshold-crossing contract without an interval, left out of a message
C14_Witness ==
    /\ sendCalls = 1
    /\ MsgSymbols # {}
    /\ \E j \in 1..Len(resolutions) :
          /\ ~resolutions[j].usable
          /\ resolutions[j].symbol \in Crossing

\* C15: in a run, no symbol gets more than one per-product request.
C15_OneResolutionPerSymbol ==
    \A s \in Symbols : resolveCalls[s] <= 1

\* C19: a run that loads the cooldown file does not end in the exception
\* of json.load, and a file whose text is not a JSON document loads as
\* the empty mapping.
C19_LoadNeverAborts ==
    loads = 1
        => /\ report # "JSONDecodeError"
           /\ (fileAtStart.exists /\ ~fileAtStart.complete /\ pc = "Cooldown"
                  /\ i = 1) => last_alerts = EmptyMap

\* the tickers whose funding_rate is a number
Parsed == { n \in 1..Len(tickers) : tickers[n].raw[1] = "num" }
RateOf(n) == tickers[n].raw[2]
Top3Symbols == { top3[k].symbol : k \in 1..Len(top3) }
Ranked == pc \in {"ranked", "message"}

\* C16: the display set has 3 contracts, or all of them when there are
\* fewer; they are contracts of the ticker list, each once, in descending
\* order of |funding_rate|, and no contract left out has a higher one.
C16_Top3ByMagnitude ==
    Ranked
        => /\ Len(top3) = IF Cardinality(Parsed) < 3 THEN Cardinality(Parsed) ELSE 3
           /\ Cardinality(Top3Symbols) = Len(top3)
           /\ \A k \in 1..Len(top3) :
                 \E n \in Parsed : /\ tickers[n].symbol = top3[k].symbol
                                   /\ RateOf(n) = top3[k].funding_rate
           /\ \A k \in 1..(Len(top3) - 1) :
                 Abs(top3[k].funding_rate) >= Abs(top3[k + 1].funding_rate)
           /\ \A n \in Parsed :
                 tickers[n].symbol \notin Top3Symbols
                     => \A k \in 1..Len(top3) :
                           Abs(RateOf(n)) <= Abs(top3[k].funding_rate)

\* four contracts, the highest one negative, the lowest one cut
C16_Witness ==
    /\ pc = "ranked"
    /\ Cardinality(Parsed) = 4
    /\ top3[1].funding_rate < 0
    /\ \E n \in Parsed :
          /\ tickers[n].symbol \notin Top3Symbols
          /\ Abs(RateOf(n)) < Abs(top3[3].funding_rate)

CandidateSymbols ==
    { alert_candidates[k].symbol : k \in 1..Len(alert_candidates) }

C20_DirectionBySign ==
    pc = "message"
        => /\ Len(msg) = Len(final_alerts)
           /\ \A k \in 1..Len(msg) :
                 /\ msg[k].funding_rate = final_alerts[k].c.funding_rate
                 /\ msg[k].funding_rate < 0
                       => msg[k].direction = "Shorts pay Longs"
                 /\ msg[k].funding_rate >= 0
                       => msg[k].direction = "Longs pay Shorts"

\* a message with a negative, a zero and a positive rate
C20_Witness ==
    /\ pc = "message"
    /\ \E a, b, c \in 1..Len(msg) :
          /\ msg[a].funding_rate < 0 /\ msg[a].direction = "Shorts pay Longs"
          /\ msg[b].funding_rate = 0 /\ msg[b].direction = "Longs pay Shorts"
          /\ msg[c].funding_rate > 0 /\ msg[c].direction = "Longs pay Shorts"

\* C18: at every moment of a save, a crash included, the file is the one
\* found before the save or the complete JSON object of the new mapping.
C18_AtomicWrite ==
    \/ file = fileAtStart
    \/ /\ file.exists
       /\ file.complete
       /\ file.text = { << k, last_alerts[k] >> : k \in DOMAIN last_alerts }

====
